---- MODULE Spec2Model ----
(***************************************************************************)
(* MediaLive RTMP push input provisioning: the full builder                *)
(* (aws_script/rtmp_new_input.py) and the quick builder                    *)
(* (aws_script/rtmp_quick.py), modelled as one run of main() against a     *)
(* cloud provider whose calls may fail and an operator who answers the     *)
(* interactive prompts.                                                    *)
(*                                                                         *)
(* Text the code inspects character by character (input names, selection   *)
(* expressions, menu choices) is a sequence of one-character strings.      *)
(* Identifiers and CIDR blocks are pairs <<head, n>>: <<"sg-", 1>> is      *)
(* "sg-1", <<"10.0.0.0/", 24>> is "10.0.0.0/24".  Python's None for such a *)
(* value is the pair None.                                                 *)
(***************************************************************************)
EXTENDS Integers, Sequences, FiniteSets, TLC

\* ---------------------------------------------------------------- bounds
MaxItems == 3        \* longest candidate list handed to select_resources
MaxExprLen == 4      \* longest selection expression the operator types

\* ------------------------------------------------------- python helpers
None == <<"None", 0>>

Digits == <<"0", "1", "2", "3", "4", "5", "6", "7", "8", "9">>

IsDigit(c) == \E d \in 1..10 : Digits[d] = c

DigitVal(c) == (CHOOSE d \in 1..10 : Digits[d] = c) - 1

IsSpace(c) == c \in {" ", "\n", "\t"}

\* str.strip(): leading and trailing whitespace removed
RECURSIVE LStrip(_)
LStrip(s) == IF s # <<>> /\ IsSpace(Head(s)) THEN LStrip(Tail(s)) ELSE s

RECURSIVE RStrip(_)
RStrip(s) ==
    IF s # <<>> /\ IsSpace(s[Len(s)]) THEN RStrip(SubSeq(s, 1, Len(s) - 1)) ELSE s

Strip(s) == RStrip(LStrip(s))

\* str.split(sep): the pieces between the separators, always at least one piece
RECURSIVE Split(_, _)
Split(s, sep) ==
    IF \A i \in 1..Len(s) : s[i] # sep
    THEN <<s>>
    ELSE LET k == CHOOSE i \in 1..Len(s) :
                      s[i] = sep /\ \A j \in 1..(i - 1) : s[j] # sep
         IN  <<SubSeq(s, 1, k - 1)>> \o Split(SubSeq(s, k + 1, Len(s)), sep)

RECURSIVE DigitsVal(_)
DigitsVal(s) ==
    IF s = <<>> THEN 0
    ELSE 10 * DigitsVal(SubSeq(s, 1, Len(s) - 1)) + DigitVal(s[Len(s)])

\* int(text): surrounding whitespace and one sign allowed, then decimal digits;
\* anything else raises ValueError (ok = FALSE)
PyInt(s) ==
    LET t == Strip(s)
        signed == t # <<>> /\ Head(t) \in {"-", "+"}
        body == IF signed THEN Tail(t) ELSE t
    IN  IF body = <<>> \/ \E i \in 1..Len(body) : ~IsDigit(body[i])
        THEN [ok |-> FALSE, v |-> 0]
        ELSE [ok |-> TRUE,
              v |-> IF signed /\ Head(t) = "-" THEN 0 - DigitsVal(body)
                    ELSE DigitsVal(body)]

\* the indices in descending order: what sorted() would not return
RECURSIVE SortedDescending(_)
SortedDescending(S) ==
    IF S = {} THEN <<>>
    ELSE LET m == CHOOSE x \in S : \A y \in S : x >= y
         IN  <<m>> \o SortedDescending(S \ {m})

\* sorted(set of ints)
RECURSIVE Sorted(_)
Sorted(S) ==
    IF S = {} THEN <<>>
    ELSE LET m == CHOOSE x \in S : \A y \in S : x <= y
         IN  <<m>> \o Sorted(S \ {m})

\* list[:n]
Take(s, n) == SubSeq(s, 1, IF Len(s) < n THEN Len(s) ELSE n)

\* [x for x in s if x in S]
RECURSIVE Filter(_, _)
Filter(s, S) ==
    IF s = <<>> THEN <<>>
    ELSE (IF Head(s) \in S THEN <<Head(s)>> ELSE <<>>) \o Filter(Tail(s), S)

Range(s) == {s[i] : i \in 1..Len(s)}

\* --------------------------------------------------- select_resources
\* a subnet as describe_subnets returns it, a security group as
\* describe_security_groups returns it
Subnet(n) == [SubnetId |-> <<"subnet-", n>>, GroupId |-> None]

SecurityGroup(n) == [SubnetId |-> None, GroupId |-> <<"sg-", n>>]

\* one comma-separated part of the selection: the indices it adds, or ValueError
SelectPart(raw, n) ==
    LET part == Strip(raw)
    IN  IF \E i \in 1..Len(part) : part[i] = "-"
        THEN LET bounds == Split(part, "-")
             IN  IF Len(bounds) # 2 THEN [ok |-> FALSE, idx |-> {}]
                 ELSE LET start == PyInt(bounds[1])
                          end == PyInt(bounds[2])
                      IN  IF ~start.ok \/ ~end.ok THEN [ok |-> FALSE, idx |-> {}]
                          ELSE IF 1 <= start.v /\ start.v <= end.v /\ end.v <= n
                          THEN [ok |-> TRUE, idx |-> start.v..end.v]
                          ELSE [ok |-> FALSE, idx |-> {}]
        ELSE LET value == PyInt(part)
             IN  IF value.ok /\ 1 <= value.v /\ value.v <= n
                 THEN [ok |-> TRUE, idx |-> {value.v}]
                 ELSE [ok |-> FALSE, idx |-> {}]

\* the body of the try block for one line typed by the operator
SelectIndices(line, n) ==
    LET parts == Split(line, ",")
        each == [i \in 1..Len(parts) |-> SelectPart(parts[i], n)]
    IN  IF \E i \in 1..Len(parts) : ~each[i].ok
        THEN [ok |-> FALSE, idx |-> {}]
        ELSE [ok |-> TRUE, idx |-> UNION {each[i].idx : i \in 1..Len(parts)}]

\* what the return statement builds from the accepted indices
SelectedIds(cands, idx) ==
    LET order == Sorted(idx)
    IN  [k \in 1..Len(order) |->
            IF cands[1].SubnetId # None
            THEN cands[order[k]].SubnetId
            ELSE cands[order[k]].GroupId]

\* one pass of the while loop: accepted with the identifiers returned, or
\* rejected (the loop prompts again)
SelectOnce(cands, line, least) ==
    LET got == SelectIndices(line, Len(cands))
    IN  IF ~got.ok \/ Cardinality(got.idx) < least
        THEN [accepted |-> FALSE, ids |-> <<>>]
        ELSE [accepted |-> TRUE, ids |-> SelectedIds(cands, got.idx)]

\* ------------------------------------------------------------- state
VARIABLES
    variant,        \* "full": rtmp_new_input.py, "quick": rtmp_quick.py
    args,           \* the parsed command line
    cloud,          \* the provider's inventory: inputs, subnets, sgs, mlsgs, networks
    pc,             \* the statement main() has reached
    name,           \* validate_name's parameter / the generated input name
    attempt,        \* validate_name's attempt parameter
    available,      \* what the listing calls returned to this run
    input_request,  \* the request under construction
    network_id,     \* ON_PREMISES: the resolved network
    calls,          \* the provider calls made so far, in order, with their outcome
    handed,         \* the requests handed to create_input
    prompts,        \* how many times input() blocked on the operator
    created,        \* identifiers of the resources created during this run
    exit_code,      \* -1 while running, then the process exit code
    error,          \* what ended the run, "" when nothing did
    items,          \* select_resources: the candidates
    min_count,      \* select_resources: the least number to select
    selection,      \* select_resources: the line the operator typed last
    selected,       \* select_resources: the returned identifiers
    peer,           \* a second invocation running at the same time: its local state
    choice          \* create_rtmp_input: the line typed at "Select a ... number"

vars == <<variant, args, cloud, pc, name, attempt, available, input_request,
          network_id, calls, handed, prompts, created, exit_code, error,
          items, min_count, selection, selected, peer, choice>>

selVars == <<items, min_count, selection, selected>>

runVars == <<variant, args, cloud, name, attempt, available, input_request,
             network_id, calls, handed, prompts, created, exit_code, error, peer, choice>>

\* ------------------------------------------------------ validate_name
Lower == {"a", "b", "c", "d", "e", "f", "g", "h", "i", "j", "k", "l", "m",
          "n", "o", "p", "q", "r", "s", "t", "u", "v", "w", "x", "y", "z"}

Upper == {"A", "B", "C", "D", "E", "F", "G", "H", "I", "J", "K", "L", "M",
          "N", "O", "P", "Q", "R", "S", "T", "U", "V", "W", "X", "Y", "Z"}

\* the character class [a-zA-Z0-9_-]
NameClass == Lower \cup Upper \cup Range(Digits) \cup {"_", "-"}

\* re.match(r'^[a-zA-Z0-9_-]+$', name): without re.MULTILINE, $ matches at the
\* end of the text and also just before a newline that ends the text
NameMatches(text) ==
    LET core == IF text # <<>> /\ text[Len(text)] = "\n"
                THEN SubSeq(text, 1, Len(text) - 1)
                ELSE text
    IN  core # <<>> /\ \A i \in 1..Len(core) : core[i] \in NameClass

SuffixLen == 6

\* string.ascii_uppercase + string.digits
SuffixAlphabet == Upper \cup Range(Digits)

\* the suffixes random.choice is let to draw here: one letter or digit, six times
SuffixLetters == {"A", "7"}

SuffixPool == {[i \in 1..SuffixLen |-> c] : c \in SuffixLetters}

\* f"{name}-{suffix}"
WithSuffix(text, suffix) == text \o <<"-">> \o suffix

\* f"rtmp-input-{uuid.uuid4()}", the uuid shortened to its first two characters
UuidPool == {<<"4", "a">>, <<"4", "b">>}

UuidName(u) == <<"r", "t", "m", "p", "-", "i", "n", "p", "u", "t", "-">> \o u

MaxAttempts == 3

\* the comparison of line 39 inverted
NameExistsInverted(text, inputs) == text \notin inputs

\* any(input_info.get('Name') == name for input_info in existing_inputs)
NameExists(text, inputs) == text \in inputs

\* ------------------------------------------------------ the request
\* optional keys of the request are present when named in keys
InitialRequest(text, source_type, app) ==
    [Name |-> text,
     Type |-> "RTMP_PUSH",
     InputNetworkLocation |-> IF source_type = "ON_PREMISES" THEN "ON_PREMISES" ELSE "AWS",
     keys |-> IF app THEN {"Destinations"} ELSE {},
     Destinations |-> IF app
                      THEN <<[StreamName |-> "primary", Network |-> None],
                             [StreamName |-> "secondary", Network |-> None]>>
                      ELSE <<>>,
     InputSecurityGroups |-> <<>>,
     SubnetIds |-> <<>>,
     SecurityGroupIds |-> <<>>,
     RoleArn |-> None]

NoRequest == InitialRequest(<<>>, "None", FALSE)

\* ------------------------------------------------------ ending a run
Exit(code, why) ==
    /\ pc' = "done"
    /\ exit_code' = code
    /\ error' = why

CallWith(op, ok, arg) == calls' = Append(calls, [op |-> op, ok |-> ok, arg |-> arg])

Call(op, ok) == CallWith(op, ok, None)

\* --------------------------------------------- full builder: validate_name
\* the return statements of validate_name, followed by lines 225-238 of
\* create_rtmp_input
ReturnName(text) ==
    /\ name' = text
    /\ input_request' = InitialRequest(text, args.source_type, args.app)
    /\ pc' = "get_available_resources"
    /\ UNCHANGED <<exit_code, error>>

ValidateNameAbsent ==
    /\ pc = "validate_name" /\ variant = "full"
    /\ name = <<>>
    /\ \E u \in UuidPool : ReturnName(UuidName(u))
    /\ UNCHANGED <<variant, args, cloud, attempt, available, network_id, calls,
                   handed, prompts, created>>
    /\ UNCHANGED <<selVars, peer, choice>>

ValidateNameInvalid ==
    /\ pc = "validate_name" /\ variant = "full"
    /\ name # <<>>
    /\ ~NameMatches(name)
    /\ Exit(1, "InvalidName")
    /\ UNCHANGED <<variant, args, cloud, name, attempt, available, input_request,
                   network_id, calls, handed, prompts, created>>
    /\ UNCHANGED <<selVars, peer, choice>>

\* list_inputs raises ClientError: the name is returned unchecked
ValidateNameUnchecked ==
    /\ pc = "validate_name" /\ variant = "full"
    /\ name # <<>>
    /\ NameMatches(name)
    /\ Call("list_inputs", FALSE)
    /\ ReturnName(name)
    /\ UNCHANGED <<variant, args, cloud, attempt, available, network_id,
                   handed, prompts, created>>
    /\ UNCHANGED <<selVars, peer, choice>>

ValidateNameFree ==
    /\ pc = "validate_name" /\ variant = "full"
    /\ name # <<>>
    /\ NameMatches(name)
    /\ ~NameExists(name, cloud.inputs)
    /\ Call("list_inputs", TRUE)
    /\ ReturnName(name)
    /\ UNCHANGED <<variant, args, cloud, attempt, available, network_id,
                   handed, prompts, created>>
    /\ UNCHANGED <<selVars, peer, choice>>

\* the name exists: a suffix is drawn and validate_name calls itself
ValidateNameRetry ==
    /\ pc = "validate_name" /\ variant = "full"
    /\ name # <<>>
    /\ NameMatches(name)
    /\ NameExists(name, cloud.inputs)
    /\ attempt < MaxAttempts
    /\ Call("list_inputs", TRUE)
    /\ \E suffix \in SuffixPool : name' = WithSuffix(name, suffix)
    /\ attempt' = attempt + 1
    /\ UNCHANGED <<variant, args, cloud, pc, available, input_request, network_id,
                   handed, prompts, created, exit_code, error>>
    /\ UNCHANGED <<selVars, peer, choice>>

ValidateNameExhausted ==
    /\ pc = "validate_name" /\ variant = "full"
    /\ name # <<>>
    /\ NameMatches(name)
    /\ NameExists(name, cloud.inputs)
    /\ attempt >= MaxAttempts
    /\ Call("list_inputs", TRUE)
    /\ Exit(1, "NameResolution")
    /\ UNCHANGED <<variant, args, cloud, name, attempt, available, input_request,
                   network_id, handed, prompts, created>>
    /\ UNCHANGED <<selVars, peer, choice>>

validate_name ==
    \/ ValidateNameAbsent
    \/ ValidateNameInvalid
    \/ ValidateNameUnchecked
    \/ ValidateNameFree
    \/ ValidateNameRetry
    \/ ValidateNameExhausted

\* ------------------------------------------------------------ inputs
NoArgs ==
    [config |-> "None", name |-> <<>>, source_type |-> "None", app |-> FALSE,
     security_group |-> None, subnets |-> <<>>, role_arn |-> None,
     network |-> None]

EmptyCloud == [inputs |-> {}, subnets |-> <<>>, sgs |-> <<>>, mlsgs |-> <<>>,
               networks |-> <<>>]

NothingListed == [subnets |-> <<>>, sgs |-> <<>>, mlsgs |-> <<>>, networks |-> <<>>]

\* the state of a process that has parsed its command line
Started(v, a, c, at) ==
    /\ variant = v
    /\ args = a
    /\ cloud = c
    /\ pc = at
    /\ name = a.name
    /\ attempt = 0
    /\ available = NothingListed
    /\ input_request = NoRequest
    /\ network_id = None
    /\ calls = <<>>
    /\ handed = <<>>
    /\ prompts = 0
    /\ created = {}
    /\ exit_code = -1
    /\ error = ""
    /\ choice = <<>>

\* no second invocation
NoPeer == [pc |-> "none"]

NoSelection ==
    /\ items = <<>>
    /\ min_count = 1
    /\ selection = <<>>
    /\ selected = <<>>


\* ------------------------------------------- identifiers and CIDR blocks
\* text.startswith(head), for the texts modelled as <<head, n>>
StartsWith(text, head) == text[1] = head

\* validate_cidr: ipaddress.ip_network accepts an IPv4 network address with a
\* prefix length of 0 to 32
validate_cidr(text) == text[1] \in {"10.0.0.0/", "0.0.0.0/"} /\ text[2] \in 0..32

Ids(resources) == {resources[i].Id : i \in 1..Len(resources)}

\* list[idx] with Python's indexing: -len..-1 count from the end, anything
\* outside -len..len-1 raises IndexError
PyIndexOk(list, idx) == 0 - Len(list) <= idx /\ idx <= Len(list) - 1

PyItem(list, idx) == IF idx >= 0 THEN list[idx + 1] ELSE list[Len(list) + idx + 1]

\* choice.lower(), for the letters of "new"
LowerChar(c) ==
    CASE c = "N" -> "n" [] c = "E" -> "e" [] c = "W" -> "w" [] OTHER -> c

LowerText(text) == [i \in 1..Len(text) |-> LowerChar(text[i])]

IsNew(text) == LowerText(text) = <<"n", "e", "w">>

\* the identifier the provider gives the next resource created in this run
NewGroupId == <<"isg-new-", Cardinality(created) + 1>>

NewNetworkId == <<"net-new-", Cardinality(created) + 1>>

\* what the operator may type
MaxPrompts == 2      \* prompts after which the operator stops mistyping
MaxPools == 2        \* IP pool lines typed for one new network

OperatorLines == {<<"1", ",", "2">>, <<"2", ",", "1">>, <<"1">>, <<"2">>,
                  <<"1", "-", "3">>, <<"0">>, <<"x">>}

OperatorChoices == {<<"n", "e", "w">>, <<"N", "e", "w">>, <<"1">>, <<"2">>,
                    <<"0">>, <<"-", "1">>, <<"9">>, <<"x">>}

OperatorCidrs == {<<"10.0.0.0/", 24>>, <<"10.0.0.0/", 33>>}

EmptyText == <<"", 0>>

OperatorRoleArns == {<<"arn:aws:iam::role/", 1>>, EmptyText}

\* bool(text) for an optional text argument
Truthy(text) == text # None /\ text # EmptyText

\* --------------------------- full builder: get_available_resources
BranchOf(source_type) ==
    CASE source_type = "AWS" -> "get_available_security_groups"
      [] source_type = "AWS_VPC" -> "vpc_subnets"
      [] source_type = "ON_PREMISES" -> "get_available_networks"
      [] OTHER -> "create_input"

GetAvailableResources ==
    /\ pc = "get_available_resources" /\ variant = "full"
    /\ \/ /\ calls' = calls \o <<[op |-> "describe_subnets", ok |-> TRUE, arg |-> None],
                                 [op |-> "describe_security_groups", ok |-> TRUE, arg |-> None]>>
          /\ available' = [available EXCEPT !.subnets = cloud.subnets, !.sgs = cloud.sgs]
       \/ /\ CallWith("describe_subnets", FALSE, None)
          /\ UNCHANGED available
       \/ /\ calls' = calls \o <<[op |-> "describe_subnets", ok |-> TRUE, arg |-> None],
                                 [op |-> "describe_security_groups", ok |-> FALSE, arg |-> None]>>
          /\ UNCHANGED available
    /\ pc' = BranchOf(args.source_type)
    /\ UNCHANGED <<variant, args, cloud, name, attempt, input_request, network_id,
                   handed, prompts, created, exit_code, error>>
    /\ UNCHANGED <<selVars, peer, choice>>

\* ------------------------------------------------ full builder: AWS
GetAvailableSecurityGroups ==
    /\ pc = "get_available_security_groups" /\ variant = "full"
    /\ \/ /\ CallWith("list_input_security_groups", TRUE, None)
          /\ available' = [available EXCEPT !.mlsgs = cloud.mlsgs]
       \/ /\ CallWith("list_input_security_groups", FALSE, None)
          /\ UNCHANGED available
    /\ pc' = "aws_security_group"
    /\ UNCHANGED <<variant, args, cloud, name, attempt, input_request, network_id,
                   handed, prompts, created, exit_code, error>>
    /\ UNCHANGED <<selVars, peer, choice>>

WithInputSecurityGroup(request, sg_id) ==
    [request EXCEPT !.InputSecurityGroups = <<sg_id>>,
                    !.keys = @ \cup {"InputSecurityGroups"}]

\* medialive_client.create_input_security_group(WhitelistRules=[{'Cidr': cidr}]),
\* the returned Id put in the request; a ClientError leaves create_rtmp_input.
\* The provider refuses a block that is no CIDR.
CreateInputSecurityGroup(cidr) ==
    \/ /\ validate_cidr(cidr)
       /\ CallWith("create_input_security_group", TRUE, cidr)
       /\ created' = created \cup {NewGroupId}
       /\ input_request' = WithInputSecurityGroup(input_request, NewGroupId)
       /\ pc' = "create_input"
       /\ UNCHANGED <<exit_code, error>>
    \/ /\ CallWith("create_input_security_group", FALSE, cidr)
       /\ Exit(1, "ClientError")
       /\ UNCHANGED <<created, input_request>>

\* the check of line 268 left out
is_ml_sg_unchecked == TRUE

is_ml_sg == args.security_group \in Ids(available.mlsgs)

AwsCreateFromCidr ==
    /\ pc = "aws_security_group" /\ variant = "full"
    /\ Truthy(args.security_group) /\ validate_cidr(args.security_group)
    /\ CreateInputSecurityGroup(args.security_group)
    /\ UNCHANGED <<variant, args, cloud, name, attempt, available, network_id,
                   handed, prompts>>
    /\ UNCHANGED <<selVars, peer, choice>>

AwsUseExisting ==
    /\ pc = "aws_security_group" /\ variant = "full"
    /\ Truthy(args.security_group) /\ ~validate_cidr(args.security_group)
    /\ StartsWith(args.security_group, "sg-")
    /\ is_ml_sg
    /\ input_request' = WithInputSecurityGroup(input_request, args.security_group)
    /\ pc' = "create_input"
    /\ UNCHANGED <<variant, args, cloud, name, attempt, available, network_id, calls,
                   handed, prompts, created, exit_code, error>>
    /\ UNCHANGED <<selVars, peer, choice>>

\* lines 275-313 and 314-352: the operator picks a listed group or creates one
AwsAsksOperator ==
    /\ pc = "aws_security_group" /\ variant = "full"
    /\ ~(Truthy(args.security_group) /\ validate_cidr(args.security_group))
    /\ ~(Truthy(args.security_group) /\ StartsWith(args.security_group, "sg-")
         /\ is_ml_sg)

AwsChooseListed ==
    /\ AwsAsksOperator
    /\ available.mlsgs # <<>>
    /\ \E entered \in OperatorChoices :
          /\ ~IsNew(entered)
          /\ choice' = entered
          /\ LET sg_idx == PyInt(entered).v - 1
             IN  IF ~PyInt(entered).ok
                 THEN Exit(1, "ValueError") /\ UNCHANGED input_request
                 ELSE IF ~PyIndexOk(available.mlsgs, sg_idx)
                 THEN Exit(1, "IndexError") /\ UNCHANGED input_request
                 ELSE /\ input_request' =
                             WithInputSecurityGroup(input_request,
                                                    PyItem(available.mlsgs, sg_idx).Id)
                      /\ pc' = "create_input"
                      /\ UNCHANGED <<exit_code, error>>
    /\ prompts' = prompts + 1
    /\ UNCHANGED <<variant, args, cloud, name, attempt, available, network_id, calls,
                   handed, created>>
    /\ UNCHANGED <<selVars, peer>>

AwsChooseNew ==
    /\ AwsAsksOperator
    /\ available.mlsgs # <<>>
    /\ \E entered \in OperatorChoices, cidr \in OperatorCidrs :
          /\ IsNew(entered)
          /\ choice' = entered
          /\ CreateInputSecurityGroup(cidr)
    /\ prompts' = prompts + 2
    /\ UNCHANGED <<variant, args, cloud, name, attempt, available, network_id, handed>>
    /\ UNCHANGED <<selVars, peer>>

AwsNothingListed ==
    /\ AwsAsksOperator
    /\ available.mlsgs = <<>>
    /\ \E cidr \in OperatorCidrs : CreateInputSecurityGroup(cidr)
    /\ prompts' = prompts + 1
    /\ UNCHANGED <<variant, args, cloud, name, attempt, available, network_id, handed>>
    /\ UNCHANGED <<selVars, peer, choice>>

\* -------------------------------------------- full builder: AWS_VPC
SubnetIdsOf(subnets) == {subnets[i].SubnetId : i \in 1..Len(subnets)}

GroupIdsOf(groups) == {groups[i].GroupId : i \in 1..Len(groups)}

\* the filter of line 359 left out
valid_subnets_unchecked == args.subnets

\* [s for s in args.subnets if s in valid_subnet_ids]
valid_subnets == Filter(args.subnets, SubnetIdsOf(available.subnets))

SubnetsSuffice == Len(args.subnets) >= 2 /\ Len(valid_subnets) >= 2

WithSubnetIds(request, ids) == [request EXCEPT !.SubnetIds = ids]

VpcSubnetsSupplied ==
    /\ pc = "vpc_subnets" /\ variant = "full"
    /\ SubnetsSuffice
    /\ input_request' = WithSubnetIds(input_request, Take(valid_subnets, 2))
    /\ pc' = "vpc_security_group"
    /\ UNCHANGED <<variant, args, cloud, name, attempt, available, network_id, calls,
                   handed, prompts, created, exit_code, error>>
    /\ UNCHANGED <<selVars, peer, choice>>

\* select_resources returns [] at once when nothing is listed
VpcSubnetsNoneListed ==
    /\ pc = "vpc_subnets" /\ variant = "full"
    /\ ~SubnetsSuffice
    /\ available.subnets = <<>>
    /\ input_request' = WithSubnetIds(input_request, Take(<<>>, 2))
    /\ pc' = "vpc_security_group"
    /\ UNCHANGED <<variant, args, cloud, name, attempt, available, network_id, calls,
                   handed, prompts, created, exit_code, error>>
    /\ UNCHANGED <<selVars, peer, choice>>

\* select_resources(available_subnets, "subnet", multiple=True, min_count=2)[:2]
VpcSubnetsSelected ==
    /\ pc = "vpc_subnets" /\ variant = "full"
    /\ ~SubnetsSuffice
    /\ available.subnets # <<>>
    /\ \E line \in OperatorLines :
          LET try == SelectOnce(available.subnets, line, 2)
          IN  /\ try.accepted
              /\ input_request' = WithSubnetIds(input_request, Take(try.ids, 2))
    /\ prompts' = prompts + 1
    /\ pc' = "vpc_security_group"
    /\ UNCHANGED <<variant, args, cloud, name, attempt, available, network_id, calls,
                   handed, created, exit_code, error>>
    /\ UNCHANGED <<selVars, peer, choice>>

VpcSubnetsAskedAgain ==
    /\ pc = "vpc_subnets" /\ variant = "full"
    /\ ~SubnetsSuffice
    /\ available.subnets # <<>>
    /\ prompts < MaxPrompts
    /\ \E line \in OperatorLines : ~SelectOnce(available.subnets, line, 2).accepted
    /\ prompts' = prompts + 1
    /\ UNCHANGED <<variant, args, cloud, pc, name, attempt, available, input_request,
                   network_id, calls, handed, created, exit_code, error>>
    /\ UNCHANGED <<selVars, peer, choice>>

WithVpcSecurityGroup(request, sg_id) ==
    [request EXCEPT !.SecurityGroupIds = <<sg_id>>,
                    !.keys = @ \cup {"SecurityGroupIds"}]

SgSupplied == Truthy(args.security_group) /\ StartsWith(args.security_group, "sg-")

sg_exists == args.security_group \in GroupIdsOf(available.sgs)

VpcSecurityGroupSupplied ==
    /\ pc = "vpc_security_group" /\ variant = "full"
    /\ SgSupplied /\ sg_exists
    /\ input_request' = WithVpcSecurityGroup(input_request, args.security_group)
    /\ pc' = "vpc_role"
    /\ UNCHANGED <<variant, args, cloud, name, attempt, available, network_id, calls,
                   handed, prompts, created, exit_code, error>>
    /\ UNCHANGED <<selVars, peer, choice>>

\* select_resources(available_security_groups, "security group")[0] with
\* nothing listed: [][0] raises IndexError
VpcSecurityGroupNoneListed ==
    /\ pc = "vpc_security_group" /\ variant = "full"
    /\ SgSupplied /\ ~sg_exists
    /\ available.sgs = <<>>
    /\ Exit(1, "IndexError")
    /\ UNCHANGED <<variant, args, cloud, name, attempt, available, input_request,
                   network_id, calls, handed, prompts, created>>
    /\ UNCHANGED <<selVars, peer, choice>>

VpcSecurityGroupSelected ==
    /\ pc = "vpc_security_group" /\ variant = "full"
    /\ SgSupplied /\ ~sg_exists
    /\ available.sgs # <<>>
    /\ \E line \in OperatorLines :
          LET try == SelectOnce(available.sgs, line, 1)
          IN  /\ try.accepted
              /\ input_request' = WithVpcSecurityGroup(input_request, try.ids[1])
    /\ prompts' = prompts + 1
    /\ pc' = "vpc_role"
    /\ UNCHANGED <<variant, args, cloud, name, attempt, available, network_id, calls,
                   handed, created, exit_code, error>>
    /\ UNCHANGED <<selVars, peer, choice>>

VpcSecurityGroupAskedAgain ==
    /\ pc = "vpc_security_group" /\ variant = "full"
    /\ SgSupplied /\ ~sg_exists
    /\ available.sgs # <<>>
    /\ prompts < MaxPrompts
    /\ \E line \in OperatorLines : ~SelectOnce(available.sgs, line, 1).accepted
    /\ prompts' = prompts + 1
    /\ UNCHANGED <<variant, args, cloud, pc, name, attempt, available, input_request,
                   network_id, calls, handed, created, exit_code, error>>
    /\ UNCHANGED <<selVars, peer, choice>>

\* no --security-group, or one that does not start with sg-: none is attached
VpcSecurityGroupSkipped ==
    /\ pc = "vpc_security_group" /\ variant = "full"
    /\ ~SgSupplied
    /\ pc' = "vpc_role"
    /\ UNCHANGED <<variant, args, cloud, name, attempt, available, input_request,
                   network_id, calls, handed, prompts, created, exit_code, error>>
    /\ UNCHANGED <<selVars, peer, choice>>

WithVpcAndRole(request, role_arn) ==
    [request EXCEPT !.RoleArn = role_arn, !.keys = @ \cup {"Vpc", "RoleArn"}]

\* input_request['Vpc'] = vpc_config
\* input_request['RoleArn'] = args.role_arn or input("Enter Role ARN: ")
VpcRoleSupplied ==
    /\ pc = "vpc_role" /\ variant = "full"
    /\ Truthy(args.role_arn)
    /\ input_request' = WithVpcAndRole(input_request, args.role_arn)
    /\ pc' = "create_input"
    /\ UNCHANGED <<variant, args, cloud, name, attempt, available, network_id, calls,
                   handed, prompts, created, exit_code, error>>
    /\ UNCHANGED <<selVars, peer, choice>>

VpcRoleAsked ==
    /\ pc = "vpc_role" /\ variant = "full"
    /\ ~Truthy(args.role_arn)
    /\ \E typed \in OperatorRoleArns :
          input_request' = WithVpcAndRole(input_request, typed)
    /\ prompts' = prompts + 1
    /\ pc' = "create_input"
    /\ UNCHANGED <<variant, args, cloud, name, attempt, available, network_id, calls,
                   handed, created, exit_code, error>>
    /\ UNCHANGED <<selVars, peer, choice>>

\* ---------------------------------------- full builder: ON_PREMISES
GetAvailableNetworks ==
    /\ pc = "get_available_networks" /\ variant = "full"
    /\ \/ /\ CallWith("list_networks", TRUE, None)
          /\ available' = [available EXCEPT !.networks = cloud.networks]
       \/ /\ CallWith("list_networks", FALSE, None)
          /\ UNCHANGED available
    /\ pc' = "on_premises"
    /\ UNCHANGED <<variant, args, cloud, name, attempt, input_request, network_id,
                   handed, prompts, created, exit_code, error>>
    /\ UNCHANGED <<selVars, peer, choice>>

\* the loop of line 428 stopping after the first destination
WithNetworkFirstOnly(request, id) ==
    [request EXCEPT !.Destinations =
        [i \in 1..Len(request.Destinations) |->
            IF i = 1 THEN [request.Destinations[i] EXCEPT !.Network = id]
            ELSE request.Destinations[i]]]

\* for dest in input_request.get('Destinations', []): dest['Network'] = network_id
WithNetwork(request, id) ==
    [request EXCEPT !.Destinations =
        [i \in 1..Len(request.Destinations) |->
            [request.Destinations[i] EXCEPT !.Network = id]]]

\* lines 422-429 once network_id is set
AttachNetwork(id) ==
    /\ network_id' = id
    /\ input_request' = WithNetwork(input_request, id)
    /\ pc' = "create_input"
    /\ UNCHANGED <<exit_code, error>>

OnPremSupplied ==
    /\ pc = "on_premises" /\ variant = "full"
    /\ Truthy(args.network)
    /\ AttachNetwork(args.network)
    /\ UNCHANGED <<variant, args, cloud, name, attempt, available, calls, handed,
                   prompts, created>>
    /\ UNCHANGED <<selVars, peer, choice>>

OnPremChooseListed ==
    /\ pc = "on_premises" /\ variant = "full"
    /\ ~Truthy(args.network)
    /\ available.networks # <<>>
    /\ \E entered \in OperatorChoices :
          /\ ~IsNew(entered)
          /\ choice' = entered
          /\ LET network_idx == PyInt(entered).v - 1
             IN  IF ~PyInt(entered).ok
                 THEN Exit(1, "ValueError") /\ UNCHANGED <<network_id, input_request>>
                 ELSE IF ~PyIndexOk(available.networks, network_idx)
                 THEN Exit(1, "IndexError") /\ UNCHANGED <<network_id, input_request>>
                 ELSE AttachNetwork(PyItem(available.networks, network_idx).Id)
    /\ prompts' = prompts + 1
    /\ UNCHANGED <<variant, args, cloud, name, attempt, available, calls, handed,
                   created>>
    /\ UNCHANGED <<selVars, peer>>

OnPremChooseNew ==
    /\ pc = "on_premises" /\ variant = "full"
    /\ ~Truthy(args.network)
    /\ available.networks # <<>>
    /\ \E entered \in OperatorChoices : IsNew(entered) /\ choice' = entered
    /\ prompts' = prompts + 1
    /\ pc' = "create_new_network"
    /\ UNCHANGED <<variant, args, cloud, name, attempt, available, input_request,
                   network_id, calls, handed, created, exit_code, error>>
    /\ UNCHANGED <<selVars, peer>>

OnPremNothingListed ==
    /\ pc = "on_premises" /\ variant = "full"
    /\ ~Truthy(args.network)
    /\ available.networks = <<>>
    /\ pc' = "create_new_network"
    /\ UNCHANGED <<variant, args, cloud, name, attempt, available, input_request,
                   network_id, calls, handed, prompts, created, exit_code, error>>
    /\ UNCHANGED <<selVars, peer, choice>>

\* the lines the operator types at "Enter IP pool CIDR", before the empty one
PoolLines == UNION {[1..n -> OperatorCidrs] : n \in 0..MaxPools}

\* the pools create_new_network keeps: the lines validate_cidr accepts
RECURSIVE ip_pools(_)
ip_pools(typed) ==
    IF typed = <<>> THEN <<>>
    ELSE (IF validate_cidr(Head(typed)) THEN <<Head(typed)>> ELSE <<>>)
         \o ip_pools(Tail(typed))

\* create_new_network giving up when no pool was entered
CreateNewNetworkGivesUp ==
    /\ pc = "create_new_network" /\ variant = "full"
    /\ prompts < MaxPrompts
    /\ \E typed \in PoolLines :
          /\ ip_pools(typed) = <<>>
          /\ prompts' = prompts + Len(typed) + 2
    /\ Exit(1, "NetworkRequired")
    /\ UNCHANGED <<variant, args, cloud, name, attempt, available, input_request,
                   network_id, calls, handed, created>>
    /\ UNCHANGED <<selVars, peer, choice>>

\* no pool was entered: create_new_network calls itself
CreateNewNetworkAgain ==
    /\ pc = "create_new_network" /\ variant = "full"
    /\ prompts < MaxPrompts
    /\ \E typed \in PoolLines :
          /\ ip_pools(typed) = <<>>
          /\ prompts' = prompts + Len(typed) + 2
    /\ UNCHANGED <<variant, args, cloud, pc, name, attempt, available, input_request,
                   network_id, calls, handed, created, exit_code, error>>
    /\ UNCHANGED <<selVars, peer, choice>>

\* create_medialive_network returns the Id of the response
CreateNewNetworkCreated ==
    /\ pc = "create_new_network" /\ variant = "full"
    /\ \E typed \in PoolLines :
          /\ ip_pools(typed) # <<>>
          /\ prompts' = prompts + Len(typed) + 3
          /\ CallWith("create_network", TRUE, <<"pools", Len(ip_pools(typed))>>)
    /\ created' = created \cup {NewNetworkId}
    /\ AttachNetwork(NewNetworkId)
    /\ UNCHANGED <<variant, args, cloud, name, attempt, available, handed>>
    /\ UNCHANGED <<selVars, peer, choice>>

\* create_medialive_network returns None (ClientError, or a response without
\* Id), and line 423 raises ValueError
CreateNewNetworkFailed ==
    /\ pc = "create_new_network" /\ variant = "full"
    /\ \E typed \in PoolLines, answered \in BOOLEAN :
          /\ ip_pools(typed) # <<>>
          /\ prompts' = prompts + Len(typed) + 3
          /\ CallWith("create_network", answered, <<"pools", Len(ip_pools(typed))>>)
    /\ Exit(1, "NetworkRequired")
    /\ UNCHANGED <<variant, args, cloud, name, attempt, available, input_request,
                   network_id, handed, created>>
    /\ UNCHANGED <<selVars, peer, choice>>

\* ------------------------------------------ full builder: create_input
\* botocore refuses a parameter whose value is None before anything is sent
SdkAccepts(request) == ~("RoleArn" \in request.keys /\ request.RoleArn = None)

\* medialive_client.create_input(**request), main's return code after it
InvokeCreateInput ==
    /\ handed' = Append(handed, input_request)
    /\ \/ /\ SdkAccepts(input_request)
          /\ CallWith("create_input", TRUE, None)
          /\ cloud' = [cloud EXCEPT !.inputs = @ \cup {input_request.Name}]
          /\ Exit(0, "")
       \/ /\ CallWith("create_input", FALSE, None)
          /\ UNCHANGED cloud
          /\ Exit(1, "ClientError")

CreateInput ==
    /\ pc = "create_input" /\ variant = "full"
    /\ InvokeCreateInput
    /\ UNCHANGED <<variant, args, name, attempt, available, input_request,
                   network_id, prompts, created>>
    /\ UNCHANGED <<selVars, peer, choice>>

\* ---------------------------------------------------- full builder: main
\* the request a readable --config file holds
FileRequest ==
    [InitialRequest(<<"f">>, "AWS", TRUE) EXCEPT
        !.InputSecurityGroups = <<<<"sg-", 1>>>>,
        !.keys = @ \cup {"InputSecurityGroups"}]

\* --config names a file json.load reads: create_input(**direct_config)
MainConfig ==
    /\ pc = "main" /\ variant = "full"
    /\ args.config = "readable"
    /\ input_request' = FileRequest
    /\ pc' = "create_input"
    /\ UNCHANGED <<variant, args, cloud, name, attempt, available, network_id, calls,
                   handed, prompts, created, exit_code, error>>
    /\ UNCHANGED <<selVars, peer, choice>>

\* load_config_file returns None for an unreadable file, direct_config is
\* falsy and create_rtmp_input builds the request from the arguments
MainConfigUnreadable ==
    /\ pc = "main" /\ variant = "full"
    /\ args.config = "unreadable"
    /\ pc' = "validate_name"
    /\ UNCHANGED runVars
    /\ UNCHANGED <<selVars, peer, choice>>

MainArgsMissing ==
    /\ pc = "main" /\ variant = "full"
    /\ args.config = "None"
    /\ args.source_type = "None" \/ ~args.app
    /\ Exit(1, "MissingArgument")
    /\ UNCHANGED <<variant, args, cloud, name, attempt, available, input_request,
                   network_id, calls, handed, prompts, created>>
    /\ UNCHANGED <<selVars, peer, choice>>

MainArgs ==
    /\ pc = "main" /\ variant = "full"
    /\ args.config = "None"
    /\ args.source_type # "None" /\ args.app
    /\ pc' = "validate_name"
    /\ UNCHANGED runVars
    /\ UNCHANGED <<selVars, peer, choice>>

\* ================================================= the quick builder
\* main's minimal validation: sys.exit leaves through SystemExit, which
\* except Exception does not catch, and the process exits with code 1
QuickMainArgsMissing ==
    /\ pc = "main" /\ variant = "quick"
    /\ args.config = "None"
    /\ args.source_type = "None" \/ ~args.app
    /\ Exit(1, "SystemExit")
    /\ UNCHANGED <<variant, args, cloud, name, attempt, available, input_request,
                   network_id, calls, handed, prompts, created>>
    /\ UNCHANGED <<selVars, peer, choice>>

\* load_config, then create_input(**config)
QuickConfig ==
    /\ pc = "main" /\ variant = "quick"
    /\ args.config = "readable"
    /\ input_request' = FileRequest
    /\ pc' = "create_input"
    /\ UNCHANGED <<variant, args, cloud, name, attempt, available, network_id, calls,
                   handed, prompts, created, exit_code, error>>
    /\ UNCHANGED <<selVars, peer, choice>>

QuickConfigUnreadable ==
    /\ pc = "main" /\ variant = "quick"
    /\ args.config = "unreadable"
    /\ Exit(1, "SystemExit")
    /\ UNCHANGED <<variant, args, cloud, name, attempt, available, input_request,
                   network_id, calls, handed, prompts, created>>
    /\ UNCHANGED <<selVars, peer, choice>>

QuickBranchOf(source_type) ==
    CASE source_type = "AWS" -> "quick_aws"
      [] source_type = "AWS_VPC" -> "quick_vpc"
      [] source_type = "ON_PREMISES" -> "quick_on_premises"
      [] OTHER -> "create_input"

\* generate_name: no look at the existing inputs, a suffix whenever a name is given
generate_name ==
    /\ pc = "main" /\ variant = "quick"
    /\ args.config = "None"
    /\ args.source_type # "None" /\ args.app
    /\ \E u \in UuidPool, suffix \in SuffixPool :
          name' = IF args.name = <<>> THEN UuidName(u) ELSE WithSuffix(args.name, suffix)
    /\ input_request' = InitialRequest(name', args.source_type, TRUE)
    /\ pc' = QuickBranchOf(args.source_type)
    /\ UNCHANGED <<variant, args, cloud, attempt, available, network_id, calls, handed,
                   prompts, created, exit_code, error>>
    /\ UNCHANGED <<selVars, peer, choice>>

QuickAwsSupplied ==
    /\ pc = "quick_aws" /\ variant = "quick"
    /\ Truthy(args.security_group) /\ StartsWith(args.security_group, "sg-")
    /\ input_request' = WithInputSecurityGroup(input_request, args.security_group)
    /\ pc' = "create_input"
    /\ UNCHANGED <<variant, args, cloud, name, attempt, available, network_id, calls,
                   handed, prompts, created, exit_code, error>>
    /\ UNCHANGED <<selVars, peer, choice>>

DefaultCidr == <<"0.0.0.0/", 0>>

\* create_security_group(client, cidr): sys.exit on ClientError
QuickAwsCreate ==
    /\ pc = "quick_aws" /\ variant = "quick"
    /\ ~(Truthy(args.security_group) /\ StartsWith(args.security_group, "sg-"))
    /\ LET cidr == IF Truthy(args.security_group) THEN args.security_group
                   ELSE DefaultCidr
       IN  \/ /\ validate_cidr(cidr)
              /\ CallWith("create_input_security_group", TRUE, cidr)
              /\ created' = created \cup {NewGroupId}
              /\ input_request' = WithInputSecurityGroup(input_request, NewGroupId)
              /\ pc' = "create_input"
              /\ UNCHANGED <<exit_code, error>>
           \/ /\ CallWith("create_input_security_group", FALSE, cidr)
              /\ Exit(1, "SystemExit")
              /\ UNCHANGED <<created, input_request>>
    /\ UNCHANGED <<variant, args, cloud, name, attempt, available, network_id,
                   handed, prompts>>
    /\ UNCHANGED <<selVars, peer, choice>>

QuickVpcTooFewSubnets ==
    /\ pc = "quick_vpc" /\ variant = "quick"
    /\ Len(args.subnets) < 2
    /\ Exit(1, "SystemExit")
    /\ UNCHANGED <<variant, args, cloud, name, attempt, available, input_request,
                   network_id, calls, handed, prompts, created>>
    /\ UNCHANGED <<selVars, peer, choice>>

\* vpc_config = {'SubnetIds': args.subnets[:2]}, the security group if one is
\* given, and RoleArn = args.role_arn whatever it is
QuickVpcRequest(request) ==
    LET withSubnets == WithSubnetIds(request, Take(args.subnets, 2))
        withGroup == IF Truthy(args.security_group)
                     THEN WithVpcSecurityGroup(withSubnets, args.security_group)
                     ELSE withSubnets
    IN  WithVpcAndRole(withGroup, args.role_arn)

QuickVpc ==
    /\ pc = "quick_vpc" /\ variant = "quick"
    /\ Len(args.subnets) >= 2
    /\ input_request' = QuickVpcRequest(input_request)
    /\ pc' = "create_input"
    /\ UNCHANGED <<variant, args, cloud, name, attempt, available, network_id, calls,
                   handed, prompts, created, exit_code, error>>
    /\ UNCHANGED <<selVars, peer, choice>>

QuickOnPremSupplied ==
    /\ pc = "quick_on_premises" /\ variant = "quick"
    /\ Truthy(args.network)
    /\ AttachNetwork(args.network)
    /\ UNCHANGED <<variant, args, cloud, name, attempt, available, calls, handed,
                   prompts, created>>
    /\ UNCHANGED <<selVars, peer, choice>>

\* create_network(client, f"network-{uuid.uuid4()}", [{'Cidr': "10.0.0.0/24"}])
QuickOnPremCreate ==
    /\ pc = "quick_on_premises" /\ variant = "quick"
    /\ ~Truthy(args.network)
    /\ \/ /\ CallWith("create_network", TRUE, <<"pools", 1>>)
          /\ created' = created \cup {NewNetworkId}
          /\ AttachNetwork(NewNetworkId)
       \/ /\ CallWith("create_network", FALSE, <<"pools", 1>>)
          /\ Exit(1, "SystemExit")
          /\ UNCHANGED <<created, network_id, input_request>>
    /\ UNCHANGED <<variant, args, cloud, name, attempt, available, handed, prompts>>
    /\ UNCHANGED <<selVars, peer, choice>>

QuickCreateInput ==
    /\ pc = "create_input" /\ variant = "quick"
    /\ InvokeCreateInput
    /\ UNCHANGED <<variant, args, name, attempt, available, input_request,
                   network_id, prompts, created>>
    /\ UNCHANGED <<selVars, peer, choice>>

\* ============================================== one run of either builder
SubnetList(n) == [i \in 1..n |-> Subnet(i)]

GroupList(n) == [i \in 1..n |-> SecurityGroup(i)]

InputSecurityGroupList(n) == [i \in 1..n |-> [Id |-> <<"sg-", i>>]]

NetworkList(n) == [i \in 1..n |-> [Id |-> <<"net-", i>>]]

\* an identifier number no inventory reaches
Unlisted == MaxItems + 6

SecurityGroupArgs == {None, <<"sg-", 1>>, <<"sg-", Unlisted>>, <<"10.0.0.0/", 24>>,
                      <<"office", 0>>}

SubnetArgs ==
    LET s1 == <<"subnet-", 1>>
        s2 == <<"subnet-", 2>>
        s9 == <<"subnet-", Unlisted>>
    IN  {<<>>, <<s1>>, <<s1, s2>>, <<s2, s1>>, <<s9, s1, s2>>, <<s1, s9, s2>>,
         <<s1, s9>>, <<s1, s1, s2>>}

RoleArnArgs == {None, <<"arn:aws:iam::role/", 1>>}

NetworkArgs == {None, <<"net-", 1>>, <<"net-", Unlisted>>}

\* a name given or not, free in either case
PlainNames ==
    {[name |-> <<>>, inputs |-> {}],
     [name |-> <<"a">>, inputs |-> {<<"b">>}]}

\* names validate_name refuses, finds taken, or finds taken at every try
NameCases ==
    PlainNames \cup
    {[name |-> <<"a">>, inputs |-> {<<"a">>}],
     [name |-> <<"a", "\n">>, inputs |-> {}],
     [name |-> <<"a", "!">>, inputs |-> {<<"a", "!">>}]} \cup
    {[name |-> <<"a">>,
      inputs |-> {<<"a">>, WithSuffix(<<"a">>, x),
                  WithSuffix(WithSuffix(<<"a">>, x), x),
                  WithSuffix(WithSuffix(WithSuffix(<<"a">>, x), x), x)}] :
        x \in SuffixPool}

Builds(source_type) == [NoArgs EXCEPT !.source_type = source_type, !.app = TRUE]

AwsCases ==
    {[args |-> [Builds("AWS") EXCEPT !.security_group = sg],
      cloud |-> [EmptyCloud EXCEPT !.mlsgs = InputSecurityGroupList(n)]] :
        sg \in SecurityGroupArgs, n \in 0..MaxItems}

VpcCases ==
    {[args |-> [Builds("AWS_VPC") EXCEPT !.subnets = c[1], !.security_group = c[2],
                                         !.role_arn = c[3]],
      cloud |-> [EmptyCloud EXCEPT !.subnets = SubnetList(c[4]),
                                   !.sgs = GroupList(c[5])]] :
        c \in SubnetArgs \X (SecurityGroupArgs \ {<<"10.0.0.0/", 24>>}) \X RoleArnArgs
              \X (0..MaxItems) \X {0, MaxItems}}

OnPremCases ==
    {[args |-> [Builds("ON_PREMISES") EXCEPT !.network = net],
      cloud |-> [EmptyCloud EXCEPT !.networks = NetworkList(n)]] :
        net \in NetworkArgs, n \in 0..MaxItems}

\* a --config file, or a command line main refuses
OtherCases ==
    {[args |-> [NoArgs EXCEPT !.config = c[1], !.source_type = c[2], !.app = c[3],
                              !.security_group = <<"10.0.0.0/", 24>>,
                              !.network = <<"net-", 1>>],
      cloud |-> EmptyCloud] :
        c \in ({"readable", "unreadable"} \X {"None", "AWS", "ON_PREMISES"} \X BOOLEAN)
              \cup ({"None"} \X {"None", "AWS"} \X BOOLEAN \ {<<"None", "AWS", TRUE>>})}

Cases == AwsCases \cup VpcCases \cup OnPremCases \cup OtherCases

\* one command line per source type, to go with every name case
NamedCases ==
    {[args |-> [Builds("AWS") EXCEPT !.security_group = <<"10.0.0.0/", 24>>],
      cloud |-> EmptyCloud],
     [args |-> [Builds("AWS_VPC") EXCEPT
                    !.subnets = <<<<"subnet-", 1>>, <<"subnet-", 2>>>>,
                    !.role_arn = <<"arn:aws:iam::role/", 1>>],
      cloud |-> [EmptyCloud EXCEPT !.subnets = SubnetList(2)]],
     [args |-> [Builds("ON_PREMISES") EXCEPT !.network = <<"net-", 1>>],
      cloud |-> EmptyCloud]}

Runs == (Cases \X PlainNames) \cup (NamedCases \X NameCases)

Init ==
    /\ \E v \in {"full", "quick"}, run \in Runs :
          \* the quick parser defaults --source-type to AWS
          /\ v = "quick" => run[1].args.source_type # "None"
          /\ Started(v,
                     [run[1].args EXCEPT !.name = run[2].name],
                     [run[1].cloud EXCEPT !.inputs = run[2].inputs],
                     "main")
    /\ NoSelection
    /\ peer = NoPeer

Full ==
    \/ MainConfig \/ MainConfigUnreadable \/ MainArgsMissing \/ MainArgs
    \/ validate_name
    \/ GetAvailableResources
    \/ GetAvailableSecurityGroups
    \/ AwsCreateFromCidr \/ AwsUseExisting
    \/ AwsChooseListed \/ AwsChooseNew \/ AwsNothingListed
    \/ VpcSubnetsSupplied \/ VpcSubnetsNoneListed
    \/ VpcSubnetsSelected \/ VpcSubnetsAskedAgain
    \/ VpcSecurityGroupSupplied \/ VpcSecurityGroupNoneListed
    \/ VpcSecurityGroupSelected \/ VpcSecurityGroupAskedAgain
    \/ VpcSecurityGroupSkipped
    \/ VpcRoleSupplied \/ VpcRoleAsked
    \/ GetAvailableNetworks
    \/ OnPremSupplied \/ OnPremChooseListed \/ OnPremChooseNew \/ OnPremNothingListed
    \/ CreateNewNetworkAgain \/ CreateNewNetworkCreated \/ CreateNewNetworkFailed
    \/ CreateInput

Quick ==
    \/ QuickMainArgsMissing \/ QuickConfig \/ QuickConfigUnreadable
    \/ generate_name
    \/ QuickAwsSupplied \/ QuickAwsCreate
    \/ QuickVpcTooFewSubnets \/ QuickVpc
    \/ QuickOnPremSupplied \/ QuickOnPremCreate
    \/ QuickCreateInput

Next == Full \/ Quick

Spec == Init /\ [][Next]_vars

\* ===================================== select_resources at the prompt
ExprChars == {"0", "1", "2", "3", ",", "-", " ", "x"}

\* every line of at most MaxExprLen of these characters
Lines == UNION {[1..n -> ExprChars] : n \in 0..MaxExprLen}

InitSel ==
    /\ Started("full", NoArgs, EmptyCloud, "select_resources")
    /\ \E n \in 0..MaxItems :
          \/ items = SubnetList(n) /\ min_count = 2
          \/ items = GroupList(n) /\ min_count = 1
    /\ selection = <<>>
    /\ selected = <<>>
    /\ peer = NoPeer

\* the two calls of create_rtmp_input: subnets with min_count=2, security
\* groups with the default min_count=1
\* if not items: return []
SelectNothingListed ==
    /\ pc = "select_resources"
    /\ items = <<>>
    /\ selected' = <<>>
    /\ pc' = "selected"
    /\ UNCHANGED <<items, min_count, selection>>
    /\ UNCHANGED runVars

SelectAccepted ==
    /\ pc = "select_resources"
    /\ items # <<>>
    /\ \E line \in Lines :
          /\ SelectOnce(items, line, min_count).accepted
          /\ selection' = line
          /\ selected' = SelectOnce(items, line, min_count).ids
    /\ pc' = "selected"
    /\ UNCHANGED <<items, min_count>>
    /\ UNCHANGED runVars

SelectRejected ==
    /\ pc = "select_resources"
    /\ items # <<>>
    /\ \E line \in Lines :
          /\ ~SelectOnce(items, line, min_count).accepted
          /\ selection' = line
    /\ pc' = "rejected"
    /\ UNCHANGED <<items, min_count, selected>>
    /\ UNCHANGED runVars

\* the while loop comes back to input()
SelectAgain ==
    /\ pc = "rejected"
    /\ pc' = "select_resources"
    /\ selection' = <<>>
    /\ UNCHANGED <<items, min_count, selected>>
    /\ UNCHANGED runVars

select_resources ==
    \/ SelectNothingListed
    \/ SelectAccepted
    \/ SelectRejected
    \/ SelectAgain

SpecSel == InitSel /\ [][select_resources]_vars
\* ----------------------------- the name resolver alone: validate_name
\* called with each desired name against each set of existing inputs
MaxExisting == 4

DesiredNames == {<<>>, <<"a">>, <<"a", "_", "1">>, <<"a", "!">>, <<"a", "\n">>,
                 <<"\n">>, <<"a", "\n", "b">>, <<"a", "-">>}

\* the names validate_name can come to try from a desired name
RECURSIVE Tries(_, _)
Tries(text, depth) ==
    IF depth = 0 THEN {text}
    ELSE {text} \cup UNION {Tries(WithSuffix(text, x), depth - 1) : x \in SuffixPool}

InitName ==
    /\ \E desired \in DesiredNames :
       \E inputs \in SUBSET Tries(desired, MaxAttempts) :
           /\ Cardinality(inputs) <= MaxExisting
           /\ Started("full",
                      [NoArgs EXCEPT !.name = desired, !.source_type = "AWS",
                                     !.app = TRUE],
                      [EmptyCloud EXCEPT !.inputs = inputs],
                      "validate_name")
    /\ NoSelection
    /\ peer = NoPeer

SpecName == InitName /\ [][validate_name]_vars

\* ============================== two invocations running at the same time
\* Two processes of rtmp_new_input.py started with the same command line.
\* They share the provider's account (cloud, and the log of calls and of
\* requests handed over); each has its own locals. The variables pc, name,
\* attempt, available, input_request, network_id, exit_code, error and choice
\* hold the locals of the process that is running, peer those of the other.
Locals ==
    [pc |-> pc, name |-> name, attempt |-> attempt, available |-> available,
     input_request |-> input_request, network_id |-> network_id,
     exit_code |-> exit_code, error |-> error, choice |-> choice]

\* the names both invocations ask for
RaceNames == {<<"a">>, <<"a", "_", "1">>}

\* the inputs that exist before either starts: the desired name is not among them
RaceInputs == {{}, {<<"b">>}}

InitRace ==
    /\ \E desired \in RaceNames, inputs \in RaceInputs :
          Started("full",
                  [NoArgs EXCEPT !.name = desired, !.source_type = "ON_PREMISES",
                                 !.app = TRUE, !.network = <<"net-", 1>>],
                  [EmptyCloud EXCEPT !.inputs = inputs],
                  "main")
    /\ NoSelection
    /\ peer = Locals

\* the scheduler takes the running process off and puts the other one on
Switch ==
    /\ peer.pc \notin {"none", "done"}
    /\ peer' = Locals
    /\ pc' = peer.pc
    /\ name' = peer.name
    /\ attempt' = peer.attempt
    /\ available' = peer.available
    /\ input_request' = peer.input_request
    /\ network_id' = peer.network_id
    /\ exit_code' = peer.exit_code
    /\ error' = peer.error
    /\ choice' = peer.choice
    /\ UNCHANGED <<variant, args, cloud, calls, handed, prompts, created>>
    /\ UNCHANGED selVars

\* the steps of main() for this command line, by either process
NextRace ==
    \/ MainArgs
    \/ ValidateNameUnchecked \/ ValidateNameFree \/ ValidateNameRetry
    \/ GetAvailableResources
    \/ GetAvailableNetworks
    \/ OnPremSupplied
    \/ CreateInput
    \/ Switch

SpecRace == InitRace /\ [][NextRace]_vars

\* ================================================================ claims
\* every character of the text is in [A-Za-z0-9_-] and there is at least one
AllInClass(text) == text # <<>> /\ \A i \in 1..Len(text) : text[i] \in NameClass

\* the text is <base>-<exactly SuffixLen uppercase letters or digits>
OneSuffix(base, text) ==
    /\ Len(text) = Len(base) + 1 + SuffixLen
    /\ SubSeq(text, 1, Len(base)) = base
    /\ text[Len(base) + 1] = "-"
    /\ \A i \in (Len(base) + 2)..Len(text) : text[i] \in SuffixAlphabet

NameReturned == pc = "get_available_resources"

NameResolved == pc # "validate_name"

ListInputsNeverFailed ==
    \A i \in 1..Len(calls) : calls[i].op = "list_inputs" => calls[i].ok

\* C1 (as claimed): a desired name in [A-Za-z0-9_-]+ that exists is resolved,
\* every list_inputs call answering, either to <desired>-<6 uppercase
\* alphanumerics> that does not exist, after at most 3 tries, or to a
\* name-resolution error; the returned name carries exactly one suffix.
C1_OneSuffixOrError ==
    (/\ NameResolved
     /\ AllInClass(args.name)
     /\ args.name \in cloud.inputs
     /\ ListInputsNeverFailed)
    => \/ error = "NameResolution"
       \/ /\ NameReturned
          /\ OneSuffix(args.name, name)
          /\ name \notin cloud.inputs
          /\ attempt <= MaxAttempts

\* C2: a desired name in [A-Za-z0-9_-]+ that does not exist is returned as it
\* is: no suffix is drawn and no error is raised.
C2_FreeNameUnchanged ==
    (/\ NameResolved
     /\ AllInClass(args.name)
     /\ args.name \notin cloud.inputs)
    => /\ NameReturned
       /\ name = args.name
       /\ input_request.Name = args.name
       /\ attempt = 0
       /\ error = ""

\* C2 witness: list_inputs answered, the desired name was not in it, and
\* validate_name returned
C2_Witness ==
    /\ NameReturned
    /\ AllInClass(args.name)
    /\ args.name \notin cloud.inputs
    /\ cloud.inputs # {}
    /\ calls = <<[op |-> "list_inputs", ok |-> TRUE, arg |-> None]>>

\* ---------------------------------------------------------------- C3
\* the request is built from the command line, not read from a --config file
FromArgs == args.config # "readable"

\* main reached validate_name with the name of the command line
ResolverCalled ==
    /\ variant = "full"
    /\ pc \notin {"main", "validate_name"}
    /\ \/ args.config = "unreadable"
       \/ args.config = "None" /\ args.source_type # "None" /\ args.app

HasOutsider(text) == \E i \in 1..Len(text) : text[i] \notin NameClass

NoCallFailed == \A i \in 1..Len(calls) : calls[i].ok

\* C3 (as claimed): a supplied name with a character outside [A-Za-z0-9_-]
\* makes the name resolver fail with the invalid-name error, whether or not
\* the name is taken, before any provider call, and no input is created
\* (stated of the runs in which no provider call fails).
C3_OutsiderRefused ==
    (ResolverCalled /\ HasOutsider(args.name) /\ NoCallFailed)
    => /\ error = "InvalidName"
       /\ exit_code = 1
       /\ calls = <<>>
       /\ handed = <<>>

\* ---------------------------------------------------------------- C4
Sent == handed # <<>>

VpcRun == args.source_type = "AWS_VPC" /\ FromArgs

FirstTwoOf(supplied, inventory) == Take(Filter(supplied, SubnetIdsOf(inventory)), 2)

TwoValidIn(inventory) == Len(Filter(args.subnets, SubnetIdsOf(inventory))) >= 2

C4_Holds(subnets, groups) ==
    (VpcRun /\ Sent /\ TwoValidIn(subnets))
    => /\ handed[1].SubnetIds = FirstTwoOf(args.subnets, subnets)
       /\ handed[1].InputNetworkLocation = "AWS"
       /\ "Vpc" \in handed[1].keys
       /\ args.security_group \in GroupIdsOf(groups)
          => /\ "SecurityGroupIds" \in handed[1].keys
             /\ handed[1].SecurityGroupIds = <<args.security_group>>
             /\ Truthy(args.role_arn) => prompts = 0

C5_TwoSubnetsOneGroup ==
    (VpcRun /\ Sent)
    => /\ Len(handed[1].SubnetIds) = 2
       /\ "SecurityGroupIds" \in handed[1].keys
       /\ Len(handed[1].SecurityGroupIds) = 1

\* ---------------------------------------------------------------- C6
AwsRun == args.source_type = "AWS" /\ FromArgs

C6_Holds ==
    (AwsRun /\ Sent)
    => /\ "InputSecurityGroups" \in handed[1].keys
       /\ Len(handed[1].InputSecurityGroups) = 1
       /\ handed[1].InputSecurityGroups[1] \in Ids(cloud.mlsgs) \cup created
       /\ args.security_group \notin Ids(cloud.mlsgs)
          => handed[1].InputSecurityGroups[1] # args.security_group

\* C6 (as claimed): in the AWS branch of either builder the request carries
\* exactly one security group ID, that of a MediaLive security group the
\* provider lists or of one created in this run; a supplied ID matching no
\* listed group is never in the request.
C6_ListedOrCreatedGroup == C6_Holds

\* C6 (amended): the same of the full builder alone.
C6_FullListedOrCreatedGroup == variant = "full" => C6_Holds

\* C6 witness: the full builder was given an unlisted sg- ID and handed a
\* request with a listed group the operator picked instead
C6_Witness ==
    /\ variant = "full" /\ AwsRun /\ Sent
    /\ args.security_group = <<"sg-", Unlisted>>
    /\ handed[1].InputSecurityGroups[1] \in Ids(cloud.mlsgs)

\* ---------------------------------------------------------------- C7
OnPremRun == args.source_type = "ON_PREMISES" /\ FromArgs

NetworkCreatedWith(pools) ==
    \E i \in 1..Len(calls) :
        calls[i] = [op |-> "create_network", ok |-> TRUE, arg |-> <<"pools", pools>>]

C8_RoleArnPresent ==
    (VpcRun /\ Sent)
    => /\ "RoleArn" \in handed[1].keys
       /\ handed[1].RoleArn # None

\* ---------------------------------------------------------------- C9
\* C9 (as claimed): once a provider call of the run has failed, create_input
\* is not invoked and the process ends with a non-zero exit code (stated of
\* the runs given no --config file).
C9_FailureAborts ==
    \A i \in 1..Len(calls) :
        (args.config = "None" /\ ~calls[i].ok)
        => /\ \A j \in (i + 1)..Len(calls) : calls[j].op # "create_input"
           /\ pc = "done" => exit_code # 0

\* --------------------------------------------------------------- C10
RECURSIVE Numeral(_)
Numeral(k) ==
    IF k < 10 THEN <<Digits[k + 1]>>
    ELSE Numeral(k \div 10) \o <<Digits[(k % 10) + 1]>>

\* the indices a well-formed token stands for: "a" or "a-b" with a <= b, in
\* 1..n; the empty set for any other token
TokenIndices(token, n) ==
    UNION ({{a} : a \in {x \in 1..n : token = Numeral(x)}}
           \cup {a..b : <<a, b>> \in {p \in (1..n) \X (1..n) :
                     /\ p[1] <= p[2]
                     /\ token = Numeral(p[1]) \o <<"-">> \o Numeral(p[2])}})

WellFormed(line, n) ==
    \A i \in 1..Len(Split(line, ",")) : TokenIndices(Split(line, ",")[i], n) # {}

Denoted(line, n) ==
    UNION {TokenIndices(Split(line, ",")[i], n) : i \in 1..Len(Split(line, ","))}

IdOf(item) == IF item.SubnetId # None THEN item.SubnetId ELSE item.GroupId

NthSmallest(S, j) == CHOOSE x \in S : Cardinality({y \in S : y <= x}) = j

\* the identifiers at the indices of S, in ascending index order
AscendingIds(cands, S) ==
    [j \in 1..Cardinality(S) |-> IdOf(cands[NthSmallest(S, j)])]

Answered == pc \in {"selected", "rejected"} /\ items # <<>>

\* C10 (as claimed): for every well-formed selection whose indices are all in
\* 1..len(candidates), select_resources returns the identifiers at the
\* distinct indices, in ascending index order, ranges inclusive.
C10_ReturnsAscendingIds ==
    (Answered /\ WellFormed(selection, Len(items)))
    => /\ pc = "selected"
       /\ selected = AscendingIds(items, Denoted(selection, Len(items)))

\* C10 (amended): the same of the selections that name at least min_count
\* distinct indices.
C10_ReturnsAscendingIdsFromMinCount ==
    (/\ Answered
     /\ WellFormed(selection, Len(items))
     /\ Cardinality(Denoted(selection, Len(items))) >= min_count)
    => /\ pc = "selected"
       /\ selected = AscendingIds(items, Denoted(selection, Len(items)))

\* C10 witness: "3,1" returned the first and the third candidate, in that order
C10_Witness ==
    /\ pc = "selected"
    /\ selection = <<"3", ",", "1">>
    /\ selected = <<IdOf(items[1]), IdOf(items[3])>>

\* --------------------------------------------------------------- C11
\* the number a bound of a token reads as, -1 when it is not a number
IndexOf(text) ==
    IF Strip(text) # <<>> /\ \A i \in 1..Len(Strip(text)) : IsDigit(Strip(text)[i])
    THEN DigitsVal(Strip(text))
    ELSE -1

\* a token that names an index outside 1..n or is a malformed range
TokenFaulty(token, n) ==
    LET bounds == Split(token, "-") IN
    \/ Len(bounds) > 2
    \/ \E i \in 1..Len(bounds) : IndexOf(bounds[i]) \notin 1..n
    \/ Len(bounds) = 2 /\ IndexOf(bounds[1]) > IndexOf(bounds[2])

TokenNames(token) ==
    LET bounds == Split(token, "-") IN
    IndexOf(bounds[1])..IndexOf(bounds[Len(bounds)])

\* a selection that select_resources is to reject
Faulty(line, n, least) ==
    LET tokens == Split(line, ",") IN
    \/ \E i \in 1..Len(tokens) : TokenFaulty(tokens[i], n)
    \/ Cardinality(UNION {TokenNames(tokens[i]) : i \in 1..Len(tokens)}) < least

\* C11 (as claimed): select_resources returns nothing for a selection with an
\* index outside 1..len(candidates), a malformed range or fewer than min_count
\* distinct indices, so every returned sequence has at least min_count
\* identifiers, for every candidate sequence, the empty one included.
C11_ReturnsAtLeastMinCount ==
    pc = "selected"
    => /\ ~Faulty(selection, Len(items), min_count)
       /\ Len(selected) >= min_count

\* --------------------------------------------------------------- C12
\* a step of create_new_network of the full builder
CreatingNetwork == pc = "create_new_network" /\ variant = "full"

\* the step ended with a network: create_network answered with an Id
YieldsNetwork == created' # created

\* the operator is asked again for the network: nothing ended, nothing sent
AsksAgain ==
    /\ pc' = "create_new_network"
    /\ exit_code' = -1
    /\ handed' = handed
    /\ prompts' > prompts

\* C12 (as claimed): with no network supplied, whenever network creation yields
\* no network (no IP pool entered, or create_network gave no ID) the full
\* builder asks the operator again instead of aborting or going on to
\* create_input, which is reached only once an attempt yielded a network.
C12_NoNetworkAsksAgain ==
    [][CreatingNetwork =>
          IF YieldsNetwork
          THEN pc' = "create_input" /\ network_id' \in created'
          ELSE AsksAgain]_vars

\* C12 (amended): with no IP pool entered the full builder asks again without
\* calling create_network; when create_network fails or gives no ID the run
\* ends with exit code 1 and create_input is not called; create_input is
\* reached only with the ID of the network created.
C12_ZeroPoolsAsksAgain ==
    [][CreatingNetwork =>
          IF YieldsNetwork
          THEN pc' = "create_input" /\ network_id' \in created'
          ELSE IF calls' = calls
          THEN AsksAgain
          ELSE /\ calls'[Len(calls')].op = "create_network"
               /\ pc' = "done" /\ exit_code' = 1
               /\ handed' = handed]_vars

\* C12 witness: an attempt with no IP pool has been made (the branch enters
\* create_new_network after at most one prompt) and the builder is asking again
C12_Witness ==
    /\ pc = "create_new_network" /\ variant = "full"
    /\ OnPremRun /\ ~Truthy(args.network)
    /\ prompts >= 2
    /\ exit_code = -1
    /\ calls[Len(calls)].op = "list_networks"
    /\ handed = <<>>

\* --------------------------------------------------------------- C13
\* C13 (as claimed): when a config path is given, the only request handed to
\* create_input is the content of the file, no call other than create_input is
\* made, and when the file cannot be loaded the run ends with a non-zero exit
\* code without calling create_input.
C13_ConfigBypassesBuilder ==
    args.config # "None"
    => /\ \A i \in 1..Len(handed) : handed[i] = FileRequest
       /\ \A i \in 1..Len(calls) : calls[i].op = "create_input"
       /\ prompts = 0
       /\ created = {}
       /\ args.config = "unreadable"
          => /\ handed = <<>>
             /\ pc = "done" => exit_code # 0

\* --------------------------------------------------------------- C14
NoNetworkOn(request) ==
    \A i \in 1..Len(request.Destinations) : request.Destinations[i].Network = None

NetworkOn(request) ==
    /\ "Destinations" \in request.keys
    /\ request.Destinations # <<>>
    /\ \A i \in 1..Len(request.Destinations) : request.Destinations[i].Network # None

\* the one security configuration of the request matches the source type
OneVariant(request, source_type) ==
    CASE source_type = "AWS" ->
            /\ "InputSecurityGroups" \in request.keys
            /\ "Vpc" \notin request.keys
            /\ NoNetworkOn(request)
            /\ request.InputNetworkLocation = "AWS"
      [] source_type = "AWS_VPC" ->
            /\ "Vpc" \in request.keys
            /\ "InputSecurityGroups" \notin request.keys
            /\ NoNetworkOn(request)
            /\ request.InputNetworkLocation = "AWS"
      [] source_type = "ON_PREMISES" ->
            /\ NetworkOn(request)
            /\ "InputSecurityGroups" \notin request.keys
            /\ "Vpc" \notin request.keys
            /\ request.InputNetworkLocation = "ON_PREMISES"
      [] OTHER -> FALSE

\* C14 (as claimed): every request either builder hands to create_input on the
\* args-based path has exactly one security configuration populated, the one
\* of its source type (InputSecurityGroups for AWS, Vpc for AWS_VPC, a Network
\* on the destinations for ON_PREMISES), and InputNetworkLocation is
\* "ON_PREMISES" exactly for the ON_PREMISES source type.
C14_OneVariantPerSourceType ==
    (FromArgs /\ Sent)
    => \A i \in 1..Len(handed) : OneVariant(handed[i], args.source_type)

\* --------------------------------------------------------------- C15
\* C15 (as claimed): two invocations of the full builder running at the same
\* time with the same desired, initially unused name never both call
\* create_input with that name: the name handed to create_input is not the
\* name of an input that exists at the moment of the call.
C15_NeverAnExistingName ==
    [][(handed' # handed /\ ListInputsNeverFailed)
          => handed'[Len(handed')].Name \notin cloud.inputs]_vars

\* --------------------------------------------------------------- C16
\* the operator answered the "Select a ... number" prompt with something
\* other than new
PickedByNumber == variant = "full" /\ choice # <<>> /\ ~IsNew(choice)

\* C16 (as claimed): where the full builder lets the operator choose a
\* MediaLive security group or a network by number out of n listed, a
\* resource is selected only when the number k entered is in 1..n, and it is
\* the one listed at position k; a number outside 1..n (0, a negative number)
\* puts no resource ID in the request.
C16_PickedAtItsPosition ==
    PickedByNumber
    => /\ "InputSecurityGroups" \in input_request.keys
          => \E k \in 1..Len(available.mlsgs) :
                /\ IndexOf(choice) = k
                /\ input_request.InputSecurityGroups = <<available.mlsgs[k].Id>>
       /\ network_id # None
          => \E k \in 1..Len(available.networks) :
                /\ IndexOf(choice) = k
                /\ network_id = available.networks[k].Id
====
